---- MODULE Spec2Model ----
(***************************************************************************)
(* The quiz session controller of AI_Quiz, as a state machine.             *)
(*                                                                         *)
(* The repository holds two page controllers with the same function names: *)
(*   page = "main" : the single-quiz script (src/frontend/src/api.js from  *)
(*                   line 74 on): verdict cache keyed by the progress      *)
(*                   triple, finalize with a force flag, no sessions;      *)
(*   page = "quiz" : initQuizPage (src/frontend/src/quiz_page.js): session *)
(*                   profile, leaderboard, no force flag, no cache lookup. *)
(* Definitions shared by both are written once; definitions that differ    *)
(* carry the prefix main_ or quiz_.                                        *)
(*                                                                         *)
(* JS numbers that can be fractional (the navigation index read back from  *)
(* storage) are counted in units of 1/Unit, so the number 1 is Unit.       *)
(***************************************************************************)
EXTENDS Integers, Sequences, FiniteSets, Bags, TLC

-----------------------------------------------------------------------------
(* Bounds of the model *)

MaxQuestions == 2
MaxInFlight == 2
MaxOverlaps == 2
MetaPassScore == 1
MaxCorruptKeys == 1

(* Program constants *)

DefaultPassScore == 13
Unit == 1 + 1

-----------------------------------------------------------------------------
(* Values *)

Pages == {"main", "quiz"}

QIds == 1..MaxQuestions

\* the question list the service holds has n questions, ids 1..n
QuestionList(n) == [i \in 1..n |-> i]

Max(a, b) == IF a >= b THEN a ELSE b
Min(a, b) == IF a <= b THEN a ELSE b

\* the texts a user can type
RawTexts == {"", " ", "a", " a"}

\* mutant: nothing is trimmed
trim_nothing(raw) == raw

\* String.prototype.trim
trim(raw) ==
  CASE raw = "" -> ""
    [] raw = " " -> ""
    [] raw = "a" -> "a"
    [] raw = " a" -> "a"
    [] raw = " n" -> "n"
    [] OTHER -> raw

\* one entry of state.progress.answers; has = FALSE is "no entry"
NoAnswer == [has |-> FALSE, answer |-> "", ok |-> FALSE, feedback |-> ""]
AnswerRecord(answer, ok, feedback) ==
  [has |-> TRUE, answer |-> answer, ok |-> ok, feedback |-> feedback]
EmptyAnswers == [q \in QIds |-> NoAnswer]

\* state.final; has = FALSE is null.  The quiz page keeps no counts (0 here).
NoFinal ==
  [has |-> FALSE, passed |-> FALSE, message |-> "", correct |-> 0, answered |-> 0,
   total |-> 0]

\* state.profile; has = FALSE is null
NoProfile == [has |-> FALSE, nickname |-> "", session_id |-> "", show |-> FALSE]

\* the two fixed texts of requestFinalFeedbackAndShow, by what they say
EmptyFeedbackMessage == "empty feedback, result recorded"
FallbackMessage == "no feedback, result computed locally"

\* what els.result shows: a kind and, for a final block or a grade, its content
NoView ==
  [passed |-> FALSE, message |-> "", correct |-> 0, answered |-> 0, total |-> 0,
   pass |-> 0]
Shown(kind) == [k |-> kind, v |-> NoView]
ShownGrade(ok) == [k |-> "graded", v |-> [NoView EXCEPT !.passed = ok]]
ShownFinal(view) == [k |-> "final", v |-> view]

-----------------------------------------------------------------------------
(* localStorage values: k is the shape of the stored text, v its content   *)
(* when the text is the JSON of a well-shaped object (k = "obj").          *)
(*   "absent"  no such key (or the empty string)                           *)
(*   "invalid" text that JSON.parse rejects                                *)
(*   "prim"    JSON of a non-object (number, string, true) or of null      *)
(*   "field"   JSON of an object lacking the field the loader requires     *)

StoredIndex(kind, n) == [k |-> kind, v |-> n]
StoredProgress(kind, answers) == [k |-> kind, v |-> answers]
StoredFinal(kind, f) == [k |-> kind, v |-> f]
StoredProfile(kind, p) == [k |-> kind, v |-> p]

AbsentIndex == StoredIndex("absent", 0)
AbsentProgress == StoredProgress("absent", EmptyAnswers)
AbsentFinal == StoredFinal("absent", NoFinal)
AbsentProfile == StoredProfile("absent", NoProfile)

CorruptKinds == {"invalid", "prim", "field"}

\* a localStorage without items
NoItems == [key \in {} |-> AbsentIndex]

\* the four items a page keeps
StorageKinds == {"index", "progress", "final", "profile"}

AbsentItem(kind) ==
  CASE kind = "index" -> AbsentIndex
    [] kind = "progress" -> AbsentProgress
    [] kind = "final" -> AbsentFinal
    [] OTHER -> AbsentProfile

\* the key names of main.js are fixed texts
main_StorageKey(kind) == <<"ai_quiz", kind>>

\* mutant: the key names do not depend on the quiz identity
quiz_StorageKey_shared(quiz, kind) == <<"ai_quiz", "", kind>>

\* `ai_quiz_${quizId}_<kind>`: one name per quiz identity and kind
quiz_StorageKey(quiz, kind) == <<"ai_quiz", quiz, kind>>

\* localStorage.getItem
getItem(items, key, kind) ==
  IF key \in DOMAIN items THEN items[key] ELSE AbsentItem(kind)

VARIABLES
  page,          \* which controller the document runs
  view,          \* "start" | "quiz": the card that is displayed
  questions,     \* state.questions (ids)
  index,         \* state.index, in units of 1/Unit
  passScore,     \* state.passScore
  answers,       \* state.progress.answers
  final,         \* state.final
  profile,       \* state.profile
  stIndex,       \* localStorage[STORAGE_INDEX_KEY]
  stProgress,    \* localStorage[STORAGE_PROGRESS_KEY]
  stFinal,       \* localStorage[STORAGE_FINAL_KEY]
  stProfile,     \* localStorage[STORAGE_PROFILE_KEY]
  locked,        \* the disabled flag lockUi last gave the input surface
  prevDisabled,  \* els.btnPrev.disabled
  nextDisabled,  \* els.btnNext.disabled
  result,        \* what els.result shows
  tasks,         \* bag of suspended async handlers, each awaiting one response
  overlaps,      \* handlers started while a response was pending, since none was
  quizId,        \* state.quizId, the quiz identity the page was opened for
  elsewhere      \* localStorage: the keys that are not the four of this page

progVars ==
  <<page, view, questions, index, passScore, answers, final, profile, stIndex,
    stProgress, stFinal, stProfile, locked, prevDisabled, nextDisabled, result>>

\* the program state as one record, so that the code's statements compose
Cur ==
  [page |-> page, view |-> view, questions |-> questions, index |-> index,
   passScore |-> passScore, answers |-> answers, final |-> final,
   profile |-> profile, stIndex |-> stIndex, stProgress |-> stProgress,
   stFinal |-> stFinal, stProfile |-> stProfile, locked |-> locked,
   prevDisabled |-> prevDisabled, nextDisabled |-> nextDisabled,
   result |-> result]

Become(s) ==
  /\ page' = s.page
  /\ view' = s.view
  /\ questions' = s.questions
  /\ index' = s.index
  /\ passScore' = s.passScore
  /\ answers' = s.answers
  /\ final' = s.final
  /\ profile' = s.profile
  /\ stIndex' = s.stIndex
  /\ stProgress' = s.stProgress
  /\ stFinal' = s.stFinal
  /\ stProfile' = s.stProfile
  /\ locked' = s.locked
  /\ prevDisabled' = s.prevDisabled
  /\ nextDisabled' = s.nextDisabled
  /\ result' = s.result

-----------------------------------------------------------------------------
(* Helpers shared by the two controllers (the code is the same in both)    *)

setResult(s, r) == [s EXCEPT !.result = r]

\* every control lockUi touches gets the same flag, btnPrev and btnNext included
lockUi(s, isLocked) ==
  [s EXCEPT !.locked = isLocked, !.prevDisabled = isLocked,
            !.nextDisabled = isLocked]

\* mutant: the index is not written to storage
saveIndex_skipped(s) == s

saveIndex(s) == [s EXCEPT !.stIndex = StoredIndex("num", s.index)]

\* "garbage" is a text Number() turns into NaN
loadIndex(s) ==
  CASE s.stIndex.k = "absent" -> 0
    [] s.stIndex.k = "garbage" -> 0
    [] OTHER -> s.stIndex.v

\* mutant: the ledger is not written to storage
saveProgress_skipped(s) == s

saveProgress(s) == [s EXCEPT !.stProgress = StoredProgress("obj", s.answers)]

\* mutant: an object without an answers field is taken for the ledger
loadProgress_unchecked(s) ==
  CASE s.stProgress.k = "absent" -> EmptyAnswers
    [] s.stProgress.k = "invalid" -> EmptyAnswers
    [] s.stProgress.k = "prim" -> EmptyAnswers
    [] OTHER -> s.stProgress.v

loadProgress(s) ==
  CASE s.stProgress.k = "absent" -> EmptyAnswers
    [] s.stProgress.k = "invalid" -> EmptyAnswers
    [] s.stProgress.k = "prim" -> EmptyAnswers
    [] s.stProgress.k = "field" -> EmptyAnswers
    [] OTHER -> s.stProgress.v

saveFinal(s) == [s EXCEPT !.stFinal = StoredFinal("obj", s.final)]

saveProfile(s) == [s EXCEPT !.stProfile = StoredProfile("obj", s.profile)]

loadProfile(s) ==
  CASE s.stProfile.k = "absent" -> NoProfile
    [] s.stProfile.k = "invalid" -> NoProfile
    [] s.stProfile.k = "prim" -> NoProfile
    [] s.stProfile.k = "field" -> NoProfile
    [] OTHER -> [s.stProfile.v EXCEPT !.has = TRUE]

IsInteger(i) == i % Unit = 0

clampIndex(s, i) ==
  IF Len(s.questions) = 0
    THEN 0
    ELSE Max(0, Min(i, (Len(s.questions) - 1) * Unit))

RECURSIVE CountIds(_, _, _)
\* the loop of computeStats: how many ids of the list satisfy P(entry)
CountIds(ids, ans, onlyCorrect) ==
  IF ids = <<>>
    THEN 0
    ELSE LET a == ans[Head(ids)]
             hit == a.has /\ (onlyCorrect => a.ok)
         IN  (IF hit THEN 1 ELSE 0) + CountIds(Tail(ids), ans, onlyCorrect)

\* mutant: the records of the whole ledger are counted, listed or not
computeStats_wholeLedger(s) ==
  [total |-> Len(s.questions),
   answered |-> Cardinality({q \in QIds : s.answers[q].has}),
   correct |-> Cardinality({q \in QIds : s.answers[q].has /\ s.answers[q].ok}),
   pass |-> s.passScore]

\* mutant: every answered question counts as correct
computeStats_allCorrect(s) ==
  [total |-> Len(s.questions),
   answered |-> CountIds(s.questions, s.answers, FALSE),
   correct |-> CountIds(s.questions, s.answers, FALSE),
   pass |-> s.passScore]

computeStats(s) ==
  [total |-> Len(s.questions),
   answered |-> CountIds(s.questions, s.answers, FALSE),
   correct |-> CountIds(s.questions, s.answers, TRUE),
   pass |-> s.passScore]

NoStats == [total |-> 0, answered |-> 0, correct |-> 0, pass |-> 0]

\* state.questions[state.index] is undefined unless the index is an integer in range
HasCurrentQuestion(s) ==
  /\ IsInteger(s.index)
  /\ s.index \div Unit \in 0..(Len(s.questions) - 1)

CurrentQuestionId(s) == s.questions[(s.index \div Unit) + 1]

\* renderQuestion raises a TypeError at q.question when q is undefined
renderQuestionThrows(s) ==
  /\ Len(s.questions) # 0
  /\ ~HasCurrentQuestion([s EXCEPT !.index = clampIndex(s, s.index)])

renderQuestion(s) ==
  IF Len(s.questions) = 0
    THEN [s EXCEPT !.prevDisabled = TRUE, !.nextDisabled = TRUE]
    ELSE LET i == clampIndex(s, s.index)
         IN  IF renderQuestionThrows(s)
               THEN [s EXCEPT !.index = i]
               ELSE [s EXCEPT !.index = i,
                              !.prevDisabled = (i = 0),
                              !.nextDisabled =
                                (i = (Len(s.questions) - 1) * Unit)]

-----------------------------------------------------------------------------
(* Suspended handlers and the responses of the remote service              *)

\* the quiz identity of the page that is opened first
QuizId == "quiz1"

\* the JSON body of a POST /api/start; has_show says whether the body has a
\* show_in_leaderboard field at all.  NoBody: the request is not a create-session
NoBody == [nickname |-> "", quiz_id |-> "", has_show |-> FALSE, show |-> FALSE]

\* startSession(baseUrl, nickname, quizId): a fourth argument is not received
startSession(nickname, quiz, show) ==
  [nickname |-> nickname, quiz_id |-> quiz, has_show |-> FALSE, show |-> FALSE]

\* a handler suspended at an await: op is the event handler, pc the request it
\* awaits, the rest are the locals it captured before the await
Task(op, pc, qid, answer, st, force) ==
  [op |-> op, pc |-> pc, qid |-> qid, answer |-> answer, st |-> st,
   force |-> force, nickname |-> "", show |-> FALSE, body |-> NoBody,
   session_id |-> ""]

InFlight == BagCardinality(tasks)

\* a handler whose last await is the leaderboard request and that does nothing
\* after it: the response changes only the leaderboard card, which is not modelled
LeaderboardOnly(t) == t.pc = "leaderboard" /\ t.op # "onStart"
LeaderboardPending == \E t \in BagToSet(tasks) : LeaderboardOnly(t)

\* Scheduling of user events.  The arrival of a leaderboard-only response changes
\* no variable but tasks, so user events are taken after it has arrived.
UserEvent == ~LeaderboardPending

\* the bounds on concurrency: at most MaxInFlight requests are pending, and at
\* most MaxOverlaps handlers start while one is, until all have been answered
CanSend ==
  /\ InFlight < MaxInFlight
  /\ InFlight > 0 => overlaps < MaxOverlaps

\* httpJson throws on a network error and on a non-2xx status: "fail".
\* A 2xx body is returned parsed; an empty body gives null ("null"), a body that
\* is no JSON gives { raw: text } ("raw").
\* A null or raw body has none of the fields the handlers read.
MetaResponses == {"fail", "ok"}
QuestionsResponses ==
  {[k |-> "fail", n |-> 0], [k |-> "null", n |-> 0], [k |-> "raw", n |-> 0]}
    \cup {[k |-> "ok", n |-> n] : n \in 0..MaxQuestions}
GradeResponses ==
  {[k |-> "fail", ok |-> FALSE, feedback |-> ""],
   [k |-> "null", ok |-> FALSE, feedback |-> ""],
   [k |-> "raw", ok |-> FALSE, feedback |-> ""]}
    \cup {[k |-> "ok", ok |-> b, feedback |-> "f"] : b \in BOOLEAN}
FinalResponses ==
  {[k |-> "fail", passed |-> FALSE, message |-> ""],
   [k |-> "null", passed |-> FALSE, message |-> ""]}
    \cup {[k |-> "ok", passed |-> b, message |-> "m"] : b \in BOOLEAN}

-----------------------------------------------------------------------------
(* page = "main": pure parts of the handlers                               *)

main_loadFinal(s) ==
  CASE s.stFinal.k = "absent" -> NoFinal
    [] s.stFinal.k = "invalid" -> NoFinal
    [] s.stFinal.k = "prim" -> NoFinal
    [] s.stFinal.k = "field" -> NoFinal
    [] OTHER ->
         [has |-> TRUE, passed |-> s.stFinal.v.passed,
          message |-> s.stFinal.v.message, correct |-> s.stFinal.v.correct,
          answered |-> s.stFinal.v.answered, total |-> s.stFinal.v.total]

\* tone and text of the final block: what it shows of its arguments
main_formatFinalBlock(finalObj, pass) ==
  [passed |-> finalObj.passed, message |-> finalObj.message,
   correct |-> finalObj.correct, answered |-> finalObj.answered,
   total |-> finalObj.total, pass |-> pass]

\* mutant: the cached verdict is never taken to match
main_cacheMatches_never(s, st) ==
  /\ s.final.has
  /\ s.final.total # st.total

\* the cached verdict was produced for exactly these counts
main_cacheMatches(s, st) ==
  /\ s.final.has
  /\ s.final.total = st.total
  /\ s.final.answered = st.answered
  /\ s.final.correct = st.correct

\* message = String(r?.message || "").trim() || <fixed text>
finalMessage(resp) ==
  IF resp.k = "ok" /\ resp.message # "" THEN resp.message ELSE EmptyFeedbackMessage

\* mutant: the force flag is ignored
main_requestFinal_begin_unforced(s, force) ==
  LET st == computeStats(s)
  IN  IF st.total = 0 \/ st.answered < st.total
        THEN [s |-> s, fin |-> "noop", st |-> st]
      ELSE IF main_cacheMatches(s, st)
        THEN [s |-> setResult(s, ShownFinal(main_formatFinalBlock(s.final, st.pass))),
              fin |-> "reused", st |-> st]
      ELSE [s |-> lockUi(setResult(s, Shown("finalizing")), TRUE),
            fin |-> "requested", st |-> st]

\* requestFinalFeedbackAndShow up to its await.
\* fin: "noop" (returned early), "reused" (cached verdict shown), "requested"
main_requestFinal_begin(s, force) ==
  LET st == computeStats(s)
  IN  IF st.total = 0
        THEN [s |-> s, fin |-> "noop", st |-> st]
      ELSE IF ~force /\ st.answered < st.total
        THEN [s |-> s, fin |-> "noop", st |-> st]
      ELSE IF main_cacheMatches(s, st)
        THEN [s |-> setResult(s, ShownFinal(main_formatFinalBlock(s.final, st.pass))),
              fin |-> "reused", st |-> st]
      ELSE [s |-> lockUi(setResult(s, Shown("finalizing")), TRUE),
            fin |-> "requested", st |-> st]

\* mutant: the fallback verdict is cached like a verdict of the service
main_requestFinal_end_caching(s, st, resp) ==
  LET stored ==
        [has |-> TRUE, passed |-> (resp.k = "ok" /\ resp.passed),
         message |-> finalMessage(resp), correct |-> st.correct,
         answered |-> st.answered, total |-> st.total]
      fallback ==
        [has |-> TRUE, passed |-> (st.correct >= st.pass),
         message |-> FallbackMessage, correct |-> st.correct,
         answered |-> st.answered, total |-> st.total]
      shown == IF resp.k = "fail" THEN fallback ELSE stored
      s1 == setResult(saveFinal([s EXCEPT !.final = shown]),
                      ShownFinal(main_formatFinalBlock(shown, st.pass)))
      s2 == lockUi(s1, FALSE)
  IN  [s |-> renderQuestion(s2),
       fin |-> IF resp.k = "fail" THEN "fallback" ELSE "verdict",
       threw |-> renderQuestionThrows(s2)]

\* requestFinalFeedbackAndShow after its await: try / catch / finally.
\* threw: renderQuestion raised in the finally block
main_requestFinal_end(s, st, resp) ==
  LET stored ==
        [has |-> TRUE, passed |-> (resp.k = "ok" /\ resp.passed),
         message |-> finalMessage(resp), correct |-> st.correct,
         answered |-> st.answered, total |-> st.total]
      fallback ==
        [has |-> TRUE, passed |-> (st.correct >= st.pass),
         message |-> FallbackMessage, correct |-> st.correct,
         answered |-> st.answered, total |-> st.total]
      s1 == IF resp.k = "fail"
              THEN setResult(s, ShownFinal(main_formatFinalBlock(fallback, st.pass)))
              ELSE setResult(saveFinal([s EXCEPT !.final = stored]),
                             ShownFinal(main_formatFinalBlock(stored, st.pass)))
      s2 == lockUi(s1, FALSE)
  IN  [s |-> renderQuestion(s2),
       fin |-> IF resp.k = "fail" THEN "fallback" ELSE "verdict",
       threw |-> renderQuestionThrows(s2)]

\* loadQuestionsFromBackend: the metadata response (failure is swallowed)
loadQuestions_meta(s, resp) ==
  IF resp = "ok" THEN [s EXCEPT !.passScore = MetaPassScore] ELSE s

\* list = Array.isArray(data?.questions) ? data.questions : []
questionsOf(resp) == IF resp.k = "ok" THEN QuestionList(resp.n) ELSE <<>>

\* loadQuestionsFromBackend after getQuestions resolved, up to renderQuestion
main_loadQuestions_restore(s, resp) ==
  LET s1 == [s EXCEPT !.questions = questionsOf(resp)]
      s2 == [s1 EXCEPT !.index = clampIndex(s1, loadIndex(s1))]
      s3 == [s2 EXCEPT !.answers = loadProgress(s2)]
  IN  [s3 EXCEPT !.final = main_loadFinal(s3)]

\* mutant: the ledger is written first, the cached verdict still in place
onGrade_firstWrite_ledger(s, t, resp) ==
  saveProgress([s EXCEPT !.answers[t.qid] =
                  AnswerRecord(t.answer, resp.k = "ok" /\ resp.ok,
                               IF resp.k = "ok" THEN resp.feedback ELSE "")])

\* onGrade after gradeAnswer resolved, up to its first storage write:
\* state.final = null and removeItem(STORAGE_FINAL_KEY)
onGrade_firstWrite(s, t, resp) ==
  [s EXCEPT !.final = NoFinal, !.stFinal = AbsentFinal]

\* mutant: the cached verdict survives the new answer
onGrade_record_keeping(s, t, resp) ==
  LET s2 == [s EXCEPT !.answers[t.qid] =
               AnswerRecord(t.answer, resp.k = "ok" /\ resp.ok,
                            IF resp.k = "ok" THEN resp.feedback ELSE "")]
  IN  setResult(saveProgress(s2), ShownGrade(resp.k = "ok" /\ resp.ok))

\* mutant: the answer is recorded under the question that is current when the
\* reply arrives
onGrade_record_current(s, t, resp) ==
  LET s1 == [s EXCEPT !.final = NoFinal, !.stFinal = AbsentFinal]
      q == IF HasCurrentQuestion(s) THEN CurrentQuestionId(s) ELSE t.qid
      s2 == [s1 EXCEPT !.answers[q] =
               AnswerRecord(t.answer, resp.k = "ok" /\ resp.ok,
                            IF resp.k = "ok" THEN resp.feedback ELSE "")]
  IN  setResult(saveProgress(s2), ShownGrade(resp.k = "ok" /\ resp.ok))

\* onGrade after gradeAnswer resolved: the statements of the try block up to
\* the nested finalize
onGrade_record(s, t, resp) ==
  LET s1 == onGrade_firstWrite(s, t, resp)
      s2 == [s1 EXCEPT !.answers[t.qid] =
               AnswerRecord(t.answer, resp.k = "ok" /\ resp.ok,
                            IF resp.k = "ok" THEN resp.feedback ELSE "")]
  IN  setResult(saveProgress(s2), ShownGrade(resp.k = "ok" /\ resp.ok))

\* r.ok raises a TypeError when the body was empty (r is null)
gradeThrows(resp) == resp.k \in {"fail", "null"}

\* mutant: the finally block does not enable the input surface
unlockAndRender_stuck(s) == renderQuestion(s)

\* the finally block shared by onGrade, and by requestFinalFeedbackAndShow
unlockAndRender(s) == renderQuestion(lockUi(s, FALSE))

-----------------------------------------------------------------------------
(* Steps: a handler runs from its event, or from the response it awaits,   *)
(* to its next await or its end.                                           *)

Finish(t, s) ==
  /\ Become(s)
  /\ tasks' = tasks (-) SetToBag({t})
  /\ overlaps' = IF InFlight = 1 THEN 0 ELSE overlaps
  /\ UNCHANGED <<quizId, elsewhere>>

\* the handler t goes on as next: it has sent its next request
Resume(t, next, s) ==
  /\ Become(s)
  /\ tasks' = (tasks (-) SetToBag({t})) (+) SetToBag({next})
  /\ UNCHANGED <<overlaps, quizId, elsewhere>>

Continue(t, s, pc, st) == Resume(t, [t EXCEPT !.pc = pc, !.st = st], s)

Start(t, s) ==
  /\ UserEvent
  /\ CanSend
  /\ Become(s)
  /\ tasks' = tasks (+) SetToBag({t})
  /\ overlaps' = IF InFlight > 0 THEN overlaps + 1 ELSE overlaps
  /\ UNCHANGED <<quizId, elsewhere>>

Local(s) ==
  /\ UserEvent
  /\ Become(s)
  /\ UNCHANGED <<tasks, overlaps, quizId, elsewhere>>

Awaiting(op, pc) == {t \in BagToSet(tasks) : t.op = op /\ t.pc = pc}

-----------------------------------------------------------------------------
(* Handlers that are the same code in both controllers                     *)

\* btnPrev / btnNext click
navigate(op, delta) ==
  IF Len(questions) = 0
    THEN Local(Cur)
    ELSE LET s1 == [Cur EXCEPT !.index = clampIndex(Cur, index + delta * Unit)]
             s2 == setResult(saveIndex(s1), Shown("noResult"))
         IN  Local(renderQuestion(s2))

onPrev ==
  /\ view = "quiz"
  /\ ~prevDisabled
  /\ navigate("onPrev", -1)

onNext ==
  /\ view = "quiz"
  /\ ~nextDisabled
  /\ navigate("onNext", 1)

\* mutant: the stored index is left in place
resetProgress_keepingIndex(s) ==
  LET s1 == [s EXCEPT !.stProgress = AbsentProgress, !.stFinal = AbsentFinal]
      s2 == [s1 EXCEPT !.answers = EmptyAnswers, !.final = NoFinal, !.index = 0]
  IN  renderQuestion(setResult(s2, Shown("reset")))

\* the body of onResetProgress
resetProgress(s) ==
  LET s1 == [s EXCEPT !.stProgress = AbsentProgress, !.stIndex = AbsentIndex,
                      !.stFinal = AbsentFinal]
      s2 == [s1 EXCEPT !.answers = EmptyAnswers, !.final = NoFinal, !.index = 0]
  IN  renderQuestion(setResult(s2, Shown("reset")))

\* btnResetProgress click
onResetProgress ==
  /\ view = "quiz"
  /\ ~locked
  /\ Local(resetProgress(Cur))

-----------------------------------------------------------------------------
(* page = "main": the handlers                                             *)

\* the document as the browser builds it, before the script runs
FreshDocument(pg, si, sp, sf, spr) ==
  [page |-> pg, view |-> "quiz", questions |-> <<>>, index |-> 0,
   passScore |-> DefaultPassScore, answers |-> EmptyAnswers, final |-> NoFinal,
   profile |-> NoProfile, stIndex |-> si, stProgress |-> sp, stFinal |-> sf,
   stProfile |-> spr, locked |-> FALSE, prevDisabled |-> FALSE,
   nextDisabled |-> FALSE, result |-> Shown("none")]

\* loadQuestionsFromBackend up to its first await
loadQuestions_begin(s) == lockUi(setResult(s, Shown("loading")), TRUE)

main_init(d) ==
  LET s1 == [d EXCEPT !.answers = loadProgress(d)]
      s2 == [s1 EXCEPT !.final = main_loadFinal(s1)]
  IN  loadQuestions_begin(renderQuestion(s2))

main_initTasks == SetToBag({Task("load", "meta", 0, "", NoStats, FALSE)})

\* btnReload click
main_loadQuestionsFromBackend ==
  /\ page = "main"
  /\ ~locked
  /\ Start(Task("load", "meta", 0, "", NoStats, FALSE), loadQuestions_begin(Cur))

main_load_meta ==
  /\ page = "main"
  /\ \E t \in Awaiting("load", "meta") : \E resp \in MetaResponses :
       Continue(t, loadQuestions_meta(Cur, resp), "questions", NoStats)

\* the questions request of the load t ends with resp
main_load_questions_on(t, resp) ==
  IF resp.k = "fail"
    THEN Finish(t, lockUi(setResult(Cur, Shown("loadError")), FALSE))
    ELSE LET s1 == main_loadQuestions_restore(Cur, resp)
             s2 == setResult(renderQuestion(s1), Shown("ready"))
             b == main_requestFinal_begin(s2, FALSE)
         IN  IF renderQuestionThrows(s1)
               THEN Finish(t, lockUi(setResult(renderQuestion(s1),
                                               Shown("loadError")), FALSE))
             ELSE IF b.fin = "requested"
               THEN Continue(t, b.s, "final", b.st)
             ELSE Finish(t, lockUi(b.s, FALSE))

main_load_questions ==
  /\ page = "main"
  /\ \E t \in Awaiting("load", "questions") : \E resp \in QuestionsResponses :
       main_load_questions_on(t, resp)

\* the final-feedback request of the load handler t ends with resp
main_load_final_on(t, resp) ==
  LET e == main_requestFinal_end(Cur, t.st, resp)
      s1 == IF e.threw THEN setResult(e.s, Shown("loadError")) ELSE e.s
  IN  Finish(t, lockUi(s1, FALSE))

main_load_final ==
  /\ page = "main"
  /\ \E t \in Awaiting("load", "final") : \E resp \in FinalResponses :
       main_load_final_on(t, resp)

\* the answer form is submitted with raw in the answer field
main_onGrade_on(raw) ==
  /\ page = "main"
  /\ ~locked
  /\ IF Len(questions) = 0
       THEN Local(setResult(Cur, Shown("noQuestions")))
     ELSE IF trim(raw) = ""
       THEN Local(setResult(Cur, Shown("needAnswer")))
     ELSE IF ~HasCurrentQuestion(Cur)
       THEN Local(unlockAndRender(setResult(Cur, Shown("gradeError"))))
     ELSE Start(Task("onGrade", "grade", CurrentQuestionId(Cur), trim(raw),
                     NoStats, FALSE),
                lockUi(setResult(Cur, Shown("grading")), TRUE))

main_onGrade == \E raw \in RawTexts : main_onGrade_on(raw)

\* the grade request of the submission t ends with resp
main_onGrade_grade_on(t, resp) ==
  IF gradeThrows(resp)
    THEN Finish(t, unlockAndRender(setResult(Cur, Shown("gradeError"))))
    ELSE LET b == main_requestFinal_begin(onGrade_record(Cur, t, resp), FALSE)
         IN  IF b.fin = "requested"
               THEN Continue(t, b.s, "final", b.st)
               ELSE Finish(t, unlockAndRender(b.s))

main_onGrade_grade ==
  /\ page = "main"
  /\ \E t \in Awaiting("onGrade", "grade") : \E resp \in GradeResponses :
       main_onGrade_grade_on(t, resp)

\* the final-feedback request of the submission t ends with resp
main_onGrade_final_on(t, resp) ==
  LET e == main_requestFinal_end(Cur, t.st, resp)
      s1 == IF e.threw THEN setResult(e.s, Shown("gradeError")) ELSE e.s
  IN  Finish(t, unlockAndRender(s1))

main_onGrade_final ==
  /\ page = "main"
  /\ \E t \in Awaiting("onGrade", "final") : \E resp \in FinalResponses :
       main_onGrade_final_on(t, resp)

\* requestFinalFeedbackAndShow({ force }) called as an operation of its own
main_requestFinalFeedbackAndShow(force) ==
  /\ page = "main"
  /\ ~locked
  /\ LET b == main_requestFinal_begin(Cur, force)
     IN  IF b.fin = "requested"
           THEN Start(Task("finalize", "final", 0, "", b.st, force), b.s)
           ELSE Local(b.s)

\* btnFinish click
main_onFinish == main_requestFinalFeedbackAndShow(TRUE)

\* finalize(force = false), the parameter's default
main_finalize == main_requestFinalFeedbackAndShow(FALSE)

\* the final-feedback request of the call t ends with resp
main_finalize_final_on(t, resp) == Finish(t, main_requestFinal_end(Cur, t.st, resp).s)

main_finalize_final ==
  /\ page = "main"
  /\ \E t \in Awaiting("finalize", "final") : \E resp \in FinalResponses :
       main_finalize_final_on(t, resp)

-----------------------------------------------------------------------------
(* page = "quiz": pure parts of the handlers                               *)

quiz_loadFinal(s) ==
  CASE s.stFinal.k = "absent" -> NoFinal
    [] s.stFinal.k = "invalid" -> NoFinal
    [] s.stFinal.k = "prim" -> NoFinal
    [] s.stFinal.k = "field" -> NoFinal
    [] OTHER ->
         [NoFinal EXCEPT !.has = TRUE, !.passed = s.stFinal.v.passed,
                         !.message = s.stFinal.v.message]

quiz_formatFinalBlock(finalObj, pass, st) ==
  [passed |-> finalObj.passed, message |-> finalObj.message,
   correct |-> st.correct, answered |-> st.answered, total |-> st.total,
   pass |-> pass]

\* mutant: any state counts as having a session
HasSession_always(s) == s.profile.has \/ ~s.profile.has

\* state.profile?.session_id is truthy
HasSession(s) == s.profile.has /\ s.profile.session_id # ""

\* requestFinalFeedbackAndShow up to its await: "noop" or "requested"
quiz_requestFinal_begin(s) ==
  LET st == computeStats(s)
  IN  IF st.total = 0 \/ ~HasSession(s)
        THEN [s |-> s, fin |-> "noop", st |-> st]
        ELSE [s |-> lockUi(setResult(s, Shown("finalizing")), TRUE),
              fin |-> "requested", st |-> st]

\* requestFinalFeedbackAndShow after its await
quiz_requestFinal_end(s, st, resp) ==
  LET stored ==
        [NoFinal EXCEPT !.has = TRUE, !.passed = (resp.k = "ok" /\ resp.passed),
                        !.message = finalMessage(resp)]
      s1 == IF resp.k = "fail"
              THEN setResult(s, Shown("finalError"))
              ELSE setResult(saveFinal([s EXCEPT !.final = stored]),
                             ShownFinal(quiz_formatFinalBlock(stored, st.pass, st)))
      s2 == lockUi(s1, FALSE)
  IN  [s |-> renderQuestion(s2),
       fin |-> IF resp.k = "fail" THEN "error" ELSE "verdict",
       threw |-> renderQuestionThrows(s2)]

quiz_loadQuestions_restore(s, resp) ==
  LET s1 == [s EXCEPT !.questions = questionsOf(resp)]
      s2 == [s1 EXCEPT !.index = clampIndex(s1, loadIndex(s1))]
      s3 == [s2 EXCEPT !.answers = loadProgress(s2)]
  IN  [s3 EXCEPT !.final = quiz_loadFinal(s3)]

\* what the start form can hold, and what the service can answer
NickTexts == {"", " ", " n"}
StartResponses ==
  {[k |-> "fail", session_id |-> "", nickname |-> "", show |-> FALSE]}
    \cup {[k |-> "ok", session_id |-> sid, nickname |-> "", show |-> FALSE] :
            sid \in {"", " ", "s1"}}
    \cup {[k |-> "ok", session_id |-> sid, nickname |-> "srv", show |-> TRUE] :
            sid \in {"", "s1"}}

\* the session the service creates for a request naming the quiz identity quiz
SessionIssued(quiz) == IF quiz = QuizId THEN "s1" ELSE "s2"

\* what the service can answer to the create-session request with this body
StartReplies(body) ==
  {[resp EXCEPT !.session_id =
      IF resp.session_id = "s1" THEN SessionIssued(body.quiz_id)
                                ELSE resp.session_id] : resp \in StartResponses}

\* mutant: a nickname is never required
needsNickname_never(nick, show) == show /\ ~show

\* show && !nickname, nickname being the trimmed text of the field
needsNickname(nick, show) == show /\ trim(nick) = ""

\* mutant: a reply without a session id is accepted
startRejected_onlyFailure(resp) == resp.k = "fail"

\* the start attempt ends in the catch block: the request failed, or
\* String(s?.session_id || "").trim() is empty
startRejected(resp) == resp.k = "fail" \/ trim(resp.session_id) = ""

\* nick = String(s?.nickname || (nickname || "guest")).trim()
startNickname(resp, nickname) ==
  IF resp.nickname # "" THEN trim(resp.nickname)
  ELSE IF nickname # "" THEN nickname ELSE "guest"

quiz_init(d) ==
  LET s1 == [d EXCEPT !.profile = loadProfile(d)]
      s2 == [s1 EXCEPT !.answers = loadProgress(s1)]
      s3 == [s2 EXCEPT !.final = quiz_loadFinal(s2)]
      s4 == [s3 EXCEPT !.view =
               IF HasSession(s3) /\ s3.profile.nickname # "" THEN "quiz" ELSE "start"]
      s5 == renderQuestion(s4)
  IN  IF s5.view = "quiz" THEN loadQuestions_begin(s5) ELSE s5

\* init starts loadQuestionsFromBackend and refreshLeaderboard without awaiting
quiz_initTasks(s) ==
  IF s.view = "quiz"
    THEN SetToBag({Task("load", "meta", 0, "", NoStats, FALSE),
                   Task("leaderboard", "leaderboard", 0, "", NoStats, FALSE)})
    ELSE EmptyBag

-----------------------------------------------------------------------------
(* page = "quiz": the handlers                                             *)

\* btnStart click with the start form holding (nick, show)
quiz_onStart_on(nick, show) ==
  /\ page = "quiz"
  /\ view = "start"
  /\ ~locked
  /\ IF needsNickname(nick, show)
       THEN Local(setResult(Cur, Shown("needNick")))
       ELSE Start([Task("onStart", "start", 0, "", NoStats, FALSE)
                     EXCEPT !.nickname = trim(nick), !.show = show,
                            !.body = startSession(trim(nick), quizId, show)],
                  lockUi(setResult(Cur, Shown("creating")), TRUE))

quiz_onStart == \E nick \in NickTexts, show \in BOOLEAN : quiz_onStart_on(nick, show)

\* the create-session request of the start attempt t ends with resp
quiz_onStart_start_on(t, resp) ==
  IF startRejected(resp)
    THEN Finish(t, lockUi(setResult(Cur, Shown("startError")), FALSE))
    ELSE LET s1 == [Cur EXCEPT !.profile =
                      [has |-> TRUE, nickname |-> startNickname(resp, t.nickname),
                       session_id |-> trim(resp.session_id), show |-> resp.show]]
             s2 == [saveProfile(s1) EXCEPT !.view = "quiz"]
         IN  \* the typed nickname and flag are not read again
             Resume(t, Task("onStart", "meta", 0, "", NoStats, FALSE),
                    loadQuestions_begin(renderQuestion(s2)))

quiz_onStart_start ==
  /\ page = "quiz"
  /\ \E t \in Awaiting("onStart", "start") : \E resp \in StartReplies(t.body) :
       quiz_onStart_start_on(t, resp)

\* btnReload click
quiz_loadQuestionsFromBackend ==
  /\ page = "quiz"
  /\ view = "quiz"
  /\ ~locked
  /\ Start(Task("load", "meta", 0, "", NoStats, FALSE), loadQuestions_begin(Cur))

\* loadQuestionsFromBackend, called by init, btnReload or onStart: getMeta resolved
quiz_loadQuestions_meta ==
  /\ page = "quiz"
  /\ \E op \in {"load", "onStart"} : \E t \in Awaiting(op, "meta") :
     \E resp \in MetaResponses :
       Continue(t, loadQuestions_meta(Cur, resp), "questions", NoStats)

\* getQuestions resolved; onStart goes on to refreshLeaderboard
\* the questions request of the load t (a load of its own, or the one onStart
\* awaits) ends with resp
quiz_loadQuestions_questions_on(t, resp) ==
  LET s1 == quiz_loadQuestions_restore(Cur, resp)
      s2 == IF resp.k = "fail"
              THEN setResult(Cur, Shown("loadError"))
            ELSE IF renderQuestionThrows(s1)
              THEN setResult(renderQuestion(s1), Shown("loadError"))
            ELSE setResult(renderQuestion(s1), Shown("ready"))
  IN  IF t.op = "load"
        THEN Finish(t, lockUi(s2, FALSE))
        ELSE Continue(t, lockUi(s2, FALSE), "leaderboard", NoStats)

quiz_loadQuestions_questions ==
  /\ page = "quiz"
  /\ \E op \in {"load", "onStart"} : \E t \in Awaiting(op, "questions") :
     \E resp \in QuestionsResponses :
       quiz_loadQuestions_questions_on(t, resp)

quiz_onStart_leaderboard ==
  /\ page = "quiz"
  /\ \E t \in Awaiting("onStart", "leaderboard") :
       Finish(t, lockUi(setResult(Cur, Shown("started")), FALSE))

\* btnLeaderboard click
quiz_refreshLeaderboard ==
  /\ page = "quiz"
  /\ view = "quiz"
  /\ ~locked
  /\ Start(Task("leaderboard", "leaderboard", 0, "", NoStats, FALSE), Cur)

\* getLeaderboard resolved or failed: only the leaderboard card changes
quiz_leaderboard_done ==
  /\ page = "quiz"
  /\ \E op \in {"leaderboard", "onFinish"} : \E t \in Awaiting(op, "leaderboard") :
       Finish(t, Cur)

\* btnFinish click
quiz_onFinish ==
  /\ page = "quiz"
  /\ view = "quiz"
  /\ ~locked
  /\ LET b == quiz_requestFinal_begin(Cur)
     IN  IF b.fin = "requested"
           THEN Start([Task("onFinish", "final", 0, "", b.st, TRUE)
                         EXCEPT !.session_id = profile.session_id], b.s)
           ELSE Start(Task("onFinish", "leaderboard", 0, "", NoStats, TRUE), b.s)

\* the final-feedback request of the handler t ends with resp
quiz_onFinish_final_on(t, resp) ==
  LET e == quiz_requestFinal_end(Cur, t.st, resp)
  IN  IF e.threw
        THEN Finish(t, e.s)
        ELSE Continue(t, e.s, "leaderboard", NoStats)

quiz_onFinish_final ==
  /\ page = "quiz"
  /\ \E t \in Awaiting("onFinish", "final") : \E resp \in FinalResponses :
       quiz_onFinish_final_on(t, resp)

\* the answer form is submitted with raw in the answer field; the handler is
\* attached to the form whichever card is displayed
quiz_onGrade_on(raw) ==
  /\ page = "quiz"
  /\ ~locked
  /\ IF ~HasSession(Cur)
       THEN Local(setResult(Cur, Shown("needSession")))
     ELSE IF Len(questions) = 0
       THEN Local(setResult(Cur, Shown("noQuestions")))
     ELSE IF trim(raw) = ""
       THEN Local(setResult(Cur, Shown("needAnswer")))
     ELSE IF ~HasCurrentQuestion(Cur)
       THEN Local(unlockAndRender(setResult(Cur, Shown("gradeError"))))
     ELSE Start([Task("onGrade", "grade", CurrentQuestionId(Cur), trim(raw),
                      NoStats, FALSE)
                   EXCEPT !.session_id = profile.session_id],
                lockUi(setResult(Cur, Shown("grading")), TRUE))

quiz_onGrade == \E raw \in RawTexts : quiz_onGrade_on(raw)

\* the grade request of the submission t ends with resp
quiz_onGrade_grade_on(t, resp) ==
  IF gradeThrows(resp)
    THEN Finish(t, unlockAndRender(setResult(Cur, Shown("gradeError"))))
    ELSE Finish(t, unlockAndRender(onGrade_record(Cur, t, resp)))

quiz_onGrade_grade ==
  /\ page = "quiz"
  /\ \E t \in Awaiting("onGrade", "grade") : \E resp \in GradeResponses :
       quiz_onGrade_grade_on(t, resp)

-----------------------------------------------------------------------------
(* What localStorage can hold when the page is first opened                *)

InitialIndexes ==
  {AbsentIndex, StoredIndex("garbage", 0), StoredIndex("num", -Unit),
   StoredIndex("num", 1), StoredIndex("num", (MaxQuestions + 1) * Unit)}
\* an object without an answers field may still hold entries: what a loader
\* that skipped the check would take for the ledger
StrayAnswers == [EmptyAnswers EXCEPT ![1] = AnswerRecord("a", TRUE, "f")]
InitialProgresses ==
  {AbsentProgress, StoredProgress("field", StrayAnswers)}
    \cup {StoredProgress(k, EmptyAnswers) : k \in CorruptKinds \ {"field"}}
InitialFinals == {AbsentFinal} \cup {StoredFinal(k, NoFinal) : k \in CorruptKinds}
\* the profile onStart saves when the service answers with a nickname of
\* whitespace only: startNickname gives "", and loadProfile accepts it
NamelessProfile ==
  StoredProfile("obj", [has |-> TRUE, nickname |-> "", session_id |-> "s1",
                        show |-> FALSE])
InitialProfiles ==
  {AbsentProfile, NamelessProfile}
    \cup {StoredProfile(k, NoProfile) : k \in CorruptKinds}

Present(x) == IF x.k = "absent" THEN 0 ELSE 1

init(d) == IF d.page = "main" THEN main_init(d) ELSE quiz_init(d)
initTasks(s) == IF s.page = "main" THEN main_initTasks ELSE quiz_initTasks(s)

Init ==
  \E pg \in Pages :
  \E si \in InitialIndexes, sp \in InitialProgresses, sf \in InitialFinals,
     spr \in InitialProfiles :
    /\ Present(si) + Present(sp) + Present(sf) + Present(spr) <= MaxCorruptKeys
    /\ pg = "main" => spr = AbsentProfile
    /\ LET s == init(FreshDocument(pg, si, sp, sf, spr))
       IN  /\ page = s.page /\ view = s.view /\ questions = s.questions
           /\ index = s.index /\ passScore = s.passScore /\ answers = s.answers
           /\ final = s.final /\ profile = s.profile /\ stIndex = s.stIndex
           /\ stProgress = s.stProgress /\ stFinal = s.stFinal
           /\ stProfile = s.stProfile /\ locked = s.locked
           /\ prevDisabled = s.prevDisabled /\ nextDisabled = s.nextDisabled
           /\ result = s.result
    /\ tasks = initTasks(init(FreshDocument(pg, si, sp, sf, spr)))
    /\ overlaps = 0
    /\ quizId = QuizId
    /\ elsewhere = NoItems

\* the user reloads the tab: memory and pending responses are gone, storage stays
PageReload ==
  /\ Become(init(FreshDocument(page, stIndex, stProgress, stFinal, stProfile)))
  /\ tasks' = initTasks(init(FreshDocument(page, stIndex, stProgress, stFinal, stProfile)))
  /\ overlaps' = 0
  /\ UNCHANGED <<quizId, elsewhere>>

\* the key under which this page keeps its item of the kind
OwnKey(kind) ==
  IF page = "main" THEN main_StorageKey(kind) ELSE quiz_StorageKey(quizId, kind)

OwnItem(kind) ==
  CASE kind = "index" -> stIndex
    [] kind = "progress" -> stProgress
    [] kind = "final" -> stFinal
    [] OTHER -> stProfile

\* the whole of localStorage: this page's items and the others
localStorage ==
  LET own == {OwnKey(kind) : kind \in StorageKinds}
  IN  [key \in own \cup DOMAIN elsewhere |->
         IF key \in own
           THEN OwnItem(CHOOSE kind \in StorageKinds : OwnKey(kind) = key)
           ELSE elsewhere[key]]

\* the user opens the page of quiz identity quiz in the same tab (the same quiz:
\* a reload): the document is built anew over the items kept under its keys
OpenQuiz(quiz) ==
  LET items == localStorage
      keys == {quiz_StorageKey(quiz, kind) : kind \in StorageKinds}
      item(kind) == getItem(items, quiz_StorageKey(quiz, kind), kind)
      d == FreshDocument("quiz", item("index"), item("progress"), item("final"),
                         item("profile"))
  IN  /\ page = "quiz"
      /\ Become(init(d))
      /\ tasks' = initTasks(init(d))
      /\ overlaps' = 0
      /\ quizId' = quiz
      /\ elsewhere' =
           [key \in {k \in DOMAIN items \ keys : items[k].k # "absent"} |->
              items[key]]

\* the tab is closed while onGrade runs after the readable reply resp, between its
\* two storage writes, and the page is opened again over what storage holds
onGrade_tabClosed_on(t, resp) ==
  LET s1 == onGrade_firstWrite(Cur, t, resp)
      d == FreshDocument(page, s1.stIndex, s1.stProgress, s1.stFinal, s1.stProfile)
  IN  /\ ~gradeThrows(resp)
      /\ Become(init(d))
      /\ tasks' = initTasks(init(d))
      /\ overlaps' = 0
      /\ UNCHANGED <<quizId, elsewhere>>

onGrade_tabClosed ==
  \E t \in Awaiting("onGrade", "grade") : \E resp \in GradeResponses :
    onGrade_tabClosed_on(t, resp)

vars == <<progVars, tasks, overlaps, quizId, elsewhere>>

Next ==
  \/ PageReload
  \/ onGrade_tabClosed
  \/ onPrev
  \/ onNext
  \/ onResetProgress
  \/ main_loadQuestionsFromBackend
  \/ main_load_meta
  \/ main_load_questions
  \/ main_load_final
  \/ main_onGrade
  \/ main_onGrade_grade
  \/ main_onGrade_final
  \/ main_onFinish
  \/ main_finalize
  \/ main_finalize_final
  \/ quiz_onStart
  \/ quiz_onStart_start
  \/ quiz_loadQuestionsFromBackend
  \/ quiz_loadQuestions_meta
  \/ quiz_loadQuestions_questions
  \/ quiz_onStart_leaderboard
  \/ quiz_refreshLeaderboard
  \/ quiz_leaderboard_done
  \/ quiz_onFinish
  \/ quiz_onFinish_final
  \/ quiz_onGrade
  \/ quiz_onGrade_grade

Spec == Init /\ [][Next]_vars

-----------------------------------------------------------------------------
(* Navigation over a longer list.  The documents are those a completed     *)
(* loadQuestionsFromBackend leaves when the service holds n questions and  *)
(* the index key holds si; only navigation follows.                        *)

NavQuestions == 3

StoredSession ==
  StoredProfile("obj", [has |-> TRUE, nickname |-> "n", session_id |-> "s1",
                        show |-> FALSE])

\* loadQuestionsFromBackend from its first statement to its last, all requests
\* answered, the questions request with n questions
LoadedDocument(pg, n, si) ==
  LET d == init(FreshDocument(pg, si, AbsentProgress, AbsentFinal,
                              IF pg = "quiz" THEN StoredSession ELSE AbsentProfile))
      s1 == loadQuestions_meta(loadQuestions_begin(d), "ok")
      s2 == IF pg = "main"
              THEN main_loadQuestions_restore(s1, [k |-> "ok", n |-> n])
              ELSE quiz_loadQuestions_restore(s1, [k |-> "ok", n |-> n])
      s3 == setResult(renderQuestion(s2),
                      IF renderQuestionThrows(s2) THEN Shown("loadError")
                                                  ELSE Shown("ready"))
  IN  lockUi(s3, FALSE)

\* every number of halves from -1 to one past the list, and the two non-numbers
NavIndexes ==
  {AbsentIndex, StoredIndex("garbage", 0)}
    \cup {StoredIndex("num", i) : i \in (-Unit)..((NavQuestions + 1) * Unit)}

InitNavigate ==
  \E pg \in Pages, n \in 0..NavQuestions, si \in NavIndexes :
    LET s == LoadedDocument(pg, n, si)
    IN  /\ page = s.page /\ view = s.view /\ questions = s.questions
        /\ index = s.index /\ passScore = s.passScore /\ answers = s.answers
        /\ final = s.final /\ profile = s.profile /\ stIndex = s.stIndex
        /\ stProgress = s.stProgress /\ stFinal = s.stFinal
        /\ stProfile = s.stProfile /\ locked = s.locked
        /\ prevDisabled = s.prevDisabled /\ nextDisabled = s.nextDisabled
        /\ result = s.result
        /\ tasks = EmptyBag
        /\ overlaps = 0
        /\ quizId = QuizId
        /\ elsewhere = NoItems

NextNavigate ==
  \/ onPrev
  \/ onNext

SpecNavigate == InitNavigate /\ [][NextNavigate]_vars

-----------------------------------------------------------------------------
(* Several quizzes in one browser.  The tab first shows main.js or the     *)
(* page of the first quiz identity, over an empty localStorage; a quiz     *)
(* page can be left for the page of another quiz identity and come back to.*)

QuizIds == {QuizId, "quiz2"}

InitIdentities ==
  \E pg \in Pages :
    LET s == init(FreshDocument(pg, AbsentIndex, AbsentProgress, AbsentFinal,
                                AbsentProfile))
    IN  /\ page = s.page /\ view = s.view /\ questions = s.questions
        /\ index = s.index /\ passScore = s.passScore /\ answers = s.answers
        /\ final = s.final /\ profile = s.profile /\ stIndex = s.stIndex
        /\ stProgress = s.stProgress /\ stFinal = s.stFinal
        /\ stProfile = s.stProfile /\ locked = s.locked
        /\ prevDisabled = s.prevDisabled /\ nextDisabled = s.nextDisabled
        /\ result = s.result
        /\ tasks = initTasks(s)
        /\ overlaps = 0
        /\ quizId = QuizId
        /\ elsewhere = NoItems

\* In these runs the user waits for every reply before the next click, and the
\* quizzes of the service hold at most one question.
Idle == tasks = EmptyBag
ShortQuiz == Len(questions') <= 1

openQuizPage == Idle /\ \E quiz \in QuizIds : OpenQuiz(quiz)

NextIdentities ==
  \/ openQuizPage
  \/ main_load_meta
  \/ main_load_questions /\ ShortQuiz
  \/ Idle /\ main_onGrade
  \/ main_onGrade_grade
  \/ main_onGrade_final
  \/ Idle /\ quiz_onStart
  \/ quiz_onStart_start
  \/ quiz_loadQuestions_meta
  \/ quiz_loadQuestions_questions /\ ShortQuiz
  \/ quiz_onStart_leaderboard
  \/ quiz_leaderboard_done
  \/ Idle /\ quiz_onFinish
  \/ quiz_onFinish_final
  \/ Idle /\ quiz_onGrade
  \/ quiz_onGrade_grade

SpecIdentities == InitIdentities /\ [][NextIdentities]_vars

-----------------------------------------------------------------------------
(* computeStats over any question list and ledger.  The documents are      *)
(* loaded ones whose list is any sequence of ids (in any order, an id may  *)
(* occur twice) and whose ledger holds, for each id, no entry, an entry    *)
(* without a boolean ok, or a graded record; Finish computes the counts.   *)

StatsQuestions == 3

\* an entry of the stored ledger whose ok is no boolean: a && typeof a.ok ===
\* "boolean" is false for it as for a missing entry
VerdictlessRecord == [NoAnswer EXCEPT !.answer = "a"]

StatsLists == UNION {[1..n -> QIds] : n \in 0..StatsQuestions}

StatsLedgers ==
  [QIds -> {NoAnswer, VerdictlessRecord, AnswerRecord("a", TRUE, "f"),
            AnswerRecord("a", FALSE, "f")}]

StatsDocument(pg, list, ledger) ==
  LET d == LoadedDocument(pg, 0, AbsentIndex)
  IN  renderQuestion([d EXCEPT !.questions = list, !.answers = ledger,
                               !.stProgress = StoredProgress("obj", ledger)])

StatsDocuments ==
  {StatsDocument(pg, list, ledger) :
     pg \in Pages, list \in StatsLists, ledger \in StatsLedgers}

InitStats ==
  \E s \in StatsDocuments :
        /\ page = s.page /\ view = s.view /\ questions = s.questions
        /\ index = s.index /\ passScore = s.passScore /\ answers = s.answers
        /\ final = s.final /\ profile = s.profile /\ stIndex = s.stIndex
        /\ stProgress = s.stProgress /\ stFinal = s.stFinal
        /\ stProfile = s.stProfile /\ locked = s.locked
        /\ prevDisabled = s.prevDisabled /\ nextDisabled = s.nextDisabled
        /\ result = s.result
        /\ tasks = EmptyBag
        /\ overlaps = 0
        /\ quizId = QuizId
        /\ elsewhere = NoItems

NextStats ==
  \/ main_onFinish
  \/ quiz_onFinish

SpecStats == InitStats /\ [][NextStats]_vars

-----------------------------------------------------------------------------
(* One document, opened over an empty localStorage and never reloaded, in  *)
(* which every request is answered at last: the browser runs a handler's   *)
(* continuation once the promise it awaits has settled.  The quizzes hold  *)
(* at most one question; the user may click while replies are pending.     *)

\* a pending request is answered
Responses ==
  \/ main_load_meta
  \/ main_load_questions /\ ShortQuiz
  \/ main_load_final
  \/ main_onGrade_grade
  \/ main_onGrade_final
  \/ main_finalize_final
  \/ quiz_onStart_start
  \/ quiz_loadQuestions_meta
  \/ quiz_loadQuestions_questions /\ ShortQuiz
  \/ quiz_onStart_leaderboard
  \/ quiz_leaderboard_done
  \/ quiz_onFinish_final
  \/ quiz_onGrade_grade

\* the operations that disable the input surface
NextReenter ==
  \/ Responses
  \/ main_loadQuestionsFromBackend
  \/ main_onGrade
  \/ main_onFinish
  \/ quiz_onStart
  \/ quiz_loadQuestionsFromBackend
  \/ quiz_onFinish
  \/ quiz_onGrade

SpecReenter == InitIdentities /\ [][NextReenter]_vars /\ WF_vars(Responses)

-----------------------------------------------------------------------------
(* Properties                                                              *)

\* the program state after the step
Next_Cur == Cur'

\* a step on which a call requestFinalFeedbackAndShow({ force: false }) made as an
\* operation of its own returns (page = "main")
main_finalizeReturns ==
  /\ \A t \in BagToSet(tasks) : ~t.force
  /\ \/ main_finalize /\ tasks' = tasks
     \/ main_finalize_final

\* what a call with force = false made in the state after the step would do
main_nextFinalize == main_requestFinal_begin(Next_Cur, FALSE)

gradeSucceeds ==
  \E t \in Awaiting("onGrade", "grade") : \E resp \in GradeResponses :
    /\ resp.k = "ok"
    /\ \/ page = "main" /\ main_onGrade_grade_on(t, resp)
       \/ page = "quiz" /\ quiz_onGrade_grade_on(t, resp)

\* C2: a step on which a grade request succeeds leaves no cached verdict in memory
\* or in storage, and a finalize that proceeds from the state it leaves sends a
\* request instead of showing a cached verdict.
C2_Invalidation ==
  [][gradeSucceeds =>
       /\ final' = NoFinal
       /\ stFinal' = AbsentFinal
       /\ (page = "main" /\ Len(questions') > 0) =>
            main_requestFinal_begin(Next_Cur, TRUE).fin = "requested"
       /\ (page = "quiz" /\ Len(questions') > 0) =>
            quiz_requestFinal_begin(Next_Cur).fin = "requested"]_vars

\* C2 witness: a verdict is cached for the current counts while the grade request
\* for a question already answered correctly is pending.
C2_Witness ==
  /\ page = "main"
  /\ final.has
  /\ stFinal.k = "obj"
  /\ main_cacheMatches(Cur, computeStats(Cur))
  /\ \E t \in Awaiting("onGrade", "grade") : answers[t.qid].has /\ answers[t.qid].ok

\* C3: with a non-empty list, finalize(force = false) below the full count returns
\* at once, changing nothing and sending nothing; a forced finalize shows the
\* cached verdict or sends a request whatever the count.  The quiz page's finalize
\* has no flag and always sends a request.
C3_Threshold ==
  LET st == computeStats(Cur)
  IN  /\ (page = "main" /\ st.total > 0 /\ st.answered < st.total) =>
           main_requestFinal_begin(Cur, FALSE) = [s |-> Cur, fin |-> "noop", st |-> st]
      /\ (page = "main" /\ st.total > 0) =>
           main_requestFinal_begin(Cur, TRUE).fin \in {"reused", "requested"}
      /\ (page = "quiz" /\ st.total > 0 /\ profile.has /\ profile.session_id # "") =>
           quiz_requestFinal_begin(Cur).fin = "requested"

\* C3 witness: a forced finalize has shown a result with no question answered.
C3_Witness ==
  /\ page = "main"
  /\ tasks = EmptyBag
  /\ result.k = "final"
  /\ result.v.total > 0
  /\ result.v.answered = 0
  /\ computeStats(Cur).answered = 0

\* the quiz of the scenario: two questions, pass threshold as the metadata gives it
ScenarioQuiz == page = "main" /\ questions = <<1, 2>> /\ passScore = MetaPassScore

ScenarioVerdict ==
  [passed |-> TRUE, message |-> "m", correct |-> 1, answered |-> 2, total |-> 2,
   pass |-> MetaPassScore]

\* C4: in the scenario quiz, grading q1 as correct sends no final-feedback request
\* and a finalize(force = false) after it does nothing; grading q2 as wrong sends
\* exactly one; when the service answers passed = true the result shows 1 correct
\* of 2, passed, and a finalize(force = false) after it sends nothing and shows
\* the same.
C4_Scenario ==
  [][\A t \in BagToSet(tasks) :
       /\ (/\ ScenarioQuiz /\ answers = EmptyAnswers
           /\ t.op = "onGrade" /\ t.pc = "grade" /\ t.qid = 1
           /\ main_onGrade_grade_on(t, [k |-> "ok", ok |-> TRUE, feedback |-> "f"])) =>
            /\ tasks' = EmptyBag
            /\ main_nextFinalize.fin = "noop"
       /\ (/\ ScenarioQuiz /\ answers[1].ok /\ ~answers[2].has
           /\ t.op = "onGrade" /\ t.pc = "grade" /\ t.qid = 2
           /\ main_onGrade_grade_on(t, [k |-> "ok", ok |-> FALSE, feedback |-> "f"])) =>
            tasks' = SetToBag({[t EXCEPT !.pc = "final",
                                         !.st = [total |-> 2, answered |-> 2,
                                                 correct |-> 1,
                                                 pass |-> MetaPassScore]]})
       /\ (/\ ScenarioQuiz /\ answers[1].ok /\ answers[2].has /\ ~answers[2].ok
           /\ t.op = "onGrade" /\ t.pc = "final"
           /\ main_onGrade_final_on(t, [k |-> "ok", passed |-> TRUE,
                                        message |-> "m"])) =>
            /\ tasks' = EmptyBag
            /\ result' = ShownFinal(ScenarioVerdict)
            /\ main_nextFinalize.fin = "reused"
            /\ main_nextFinalize.s.result = result']_vars

\* C4 witness: the scenario has run to its end.
C4_Witness ==
  /\ ScenarioQuiz
  /\ tasks = EmptyBag
  /\ answers[1].ok
  /\ answers[2].has /\ ~answers[2].ok
  /\ final.has /\ final.passed /\ final.correct = 1 /\ final.total = 2
  /\ result = ShownFinal(ScenarioVerdict)

\* no profile with a non-empty session id
NoSession == ~(profile.has /\ profile.session_id # "")

C6_AsStated ==
  [][(onPrev \/ onNext) =>
       IF Len(questions) = 0
         THEN index' = index /\ stIndex' = stIndex
         ELSE /\ IsInteger(index')
              /\ index' \div Unit \in 0..(Len(questions) - 1)]_vars

\* C7: while the stored ledger is corrupt, the ledger a load or an init yields is
\* empty, the ledger in memory is empty and the counts of answered and of correct
\* questions are 0.
C7_LedgerResilience ==
  stProgress.k \in CorruptKinds =>
    /\ loadProgress(Cur) = EmptyAnswers
    /\ init(FreshDocument(page, stIndex, stProgress, stFinal, stProfile)).answers
         = EmptyAnswers
    /\ main_loadQuestions_restore(Cur, [k |-> "ok", n |-> Len(questions)]).answers
         = EmptyAnswers
    /\ quiz_loadQuestions_restore(Cur, [k |-> "ok", n |-> Len(questions)]).answers
         = EmptyAnswers
    /\ answers = EmptyAnswers
    /\ computeStats(Cur).answered = 0
    /\ computeStats(Cur).correct = 0

\* C7 witness: a load over a corrupt stored ledger has completed without an error.
C7_Witness ==
  /\ stProgress.k \in CorruptKinds
  /\ Len(questions) > 0
  /\ tasks = EmptyBag
  /\ result = Shown("ready")
  /\ answers = EmptyAnswers

\* the final-feedback request failed: network error or non-2xx status
FinalFailure == [k |-> "fail", passed |-> FALSE, message |-> ""]

\* the final-feedback request of handler t of page "main" ends with resp
main_final_on(t, resp) ==
  /\ page = "main"
  /\ t.pc = "final"
  /\ \/ t.op = "load" /\ main_load_final_on(t, resp)
     \/ t.op = "onGrade" /\ main_onGrade_final_on(t, resp)
     \/ t.op = "finalize" /\ main_finalize_final_on(t, resp)

\* the verdict synthesised from the counts st
FallbackView(st) ==
  [passed |-> (st.correct >= st.pass), message |-> FallbackMessage,
   correct |-> st.correct, answered |-> st.answered, total |-> st.total,
   pass |-> st.pass]

GradeFailures == {resp \in GradeResponses : resp.k # "ok"}

\* C9 (as stated): when the grade request fails, the ledger, the cached verdict
\* (both in memory and in storage) and the index are as before the submission.
C9_AsStated ==
  [][\A t \in Awaiting("onGrade", "grade") : \A resp \in GradeFailures :
       (\/ page = "main" /\ main_onGrade_grade_on(t, resp)
        \/ page = "quiz" /\ quiz_onGrade_grade_on(t, resp)) =>
         UNCHANGED <<answers, stProgress, final, stFinal, index>>]_vars

\* the texts that are empty or whitespace only
BlankTexts == {"", " "}

\* C10: a submission of an empty or whitespace-only text sends no request and
\* leaves the ledger, the cached verdict, the index, the profile and their stored
\* copies as they were.
C10_EmptyRejected ==
  [][\A raw \in BlankTexts :
       (main_onGrade_on(raw) \/ quiz_onGrade_on(raw)) =>
         /\ tasks' = tasks
         /\ UNCHANGED <<answers, stProgress, final, stFinal, index, stIndex,
                        profile, stProfile>>]_vars

\* C10 witness: a blank submission was refused on a loaded quiz.
C10_Witness ==
  /\ Len(questions) > 0
  /\ result = Shown("needAnswer")
  /\ tasks = EmptyBag
  /\ ~locked

\* how many of the pending requests are of kind pc
PendingCount(pc) ==
  BagCardinality([t \in {u \in BagToSet(tasks) : u.pc = pc} |-> CopiesIn(t, tasks)])

\* C11 (as stated): at most one remote request is in flight in every reachable
\* state.
C11_AsStated == InFlight <= 1

\* a handler of an operation of the controller (start, load, submission, finalize)
\* that has not run to its end; a handler left with the leaderboard refresh alone
\* has completed its operation
OperationPending ==
  \E t \in BagToSet(tasks) :
    \/ t.op \in {"onStart", "load", "onGrade", "finalize"}
    \/ t.op = "onFinish" /\ t.pc = "final"

\* C12 (as stated): while an operation has begun and not completed, the input
\* surface is disabled.
C12_AsStated == OperationPending => locked

\* C13 (as stated): no step leaves two grade requests in flight, and no step
\* issues a final-feedback request while a grade request stays in flight.
C13_AsStated ==
  [][/\ PendingCount("grade")' <= 1
     /\ PendingCount("final")' > PendingCount("final") =>
          PendingCount("grade")' = 0]_vars

\* C14 (as stated): from a state in which the profile holds a session id, no step
\* sends a create-session request and no step changes the profile in memory or in
\* storage.
C14_AsStated ==
  [][HasSession(Cur) =>
       /\ PendingCount("start")' <= PendingCount("start")
       /\ profile' = profile
       /\ stProfile' = stProfile]_vars

\* the nickname texts that trim to the empty text
BlankNicknames == {"", " "}

\* C15: a click on Start with leaderboard visibility requested and a nickname that
\* is empty or whitespace only sends no request, shows the nickname-required
\* message and leaves the profile, its stored copy and the displayed card as they
\* were.
C15_NicknameRequired ==
  [][\A nick \in BlankNicknames :
       quiz_onStart_on(nick, TRUE) =>
         /\ tasks' = tasks
         /\ result' = Shown("needNick")
         /\ UNCHANGED <<profile, stProfile, view>>]_vars

\* C15 witness: a start with visibility and no nickname was refused, and there is
\* no profile in memory or in storage.
C15_Witness ==
  /\ page = "quiz"
  /\ view = "start"
  /\ result = Shown("needNick")
  /\ profile = NoProfile
  /\ stProfile = AbsentProfile
  /\ tasks = EmptyBag

\* the replies to a create-session request that give no session: the request
\* failed, or the body has no session id or one of whitespace only
FailedStarts ==
  {resp \in StartResponses : resp.k = "fail" \/ resp.session_id \in BlankTexts}

\* C16: when the create-session request of a start attempt ends without a session
\* id, the handler ends there: the profile and its stored copy are as before, the
\* start card stays displayed, the error is shown and no request follows.
C16_NoPartialProfile ==
  [][\A t \in Awaiting("onStart", "start") : \A resp \in FailedStarts :
       quiz_onStart_start_on(t, resp) =>
         /\ tasks' = tasks (-) SetToBag({t})
         /\ result' = Shown("startError")
         /\ UNCHANGED <<profile, stProfile, view, questions>>]_vars

\* C16 witness: a start attempt has failed and there is no profile in memory or in
\* storage.
C16_Witness ==
  /\ page = "quiz"
  /\ view = "start"
  /\ result = Shown("startError")
  /\ profile = NoProfile
  /\ stProfile = AbsentProfile
  /\ tasks = EmptyBag
  /\ ~locked

\* C17 (as stated): the body of every pending create-session request carries the
\* trimmed nickname, the quiz identity and the visibility flag the user chose.
C17_AsStated ==
  \A t \in Awaiting("onStart", "start") :
    /\ t.body.nickname = t.nickname
    /\ t.body.quiz_id = quizId
    /\ t.body.has_show
    /\ t.body.show = t.show

\* C18: a reset leaves the ledger empty, the index 0 and no cached verdict, in
\* memory and in storage (the three keys are absent), leaves the profile, its
\* stored copy, the question list and the pass threshold as they were, and sends
\* no request.
C18_ResetFrame ==
  [][onResetProgress =>
       /\ answers' = EmptyAnswers
       /\ index' = 0
       /\ final' = NoFinal
       /\ stProgress' = AbsentProgress
       /\ stIndex' = AbsentIndex
       /\ stFinal' = AbsentFinal
       /\ tasks' = tasks
       /\ UNCHANGED <<profile, stProfile, questions, passScore>>]_vars

\* C18 witness: progress was reset on a loaded quiz of a started session.
C18_Witness ==
  /\ page = "quiz"
  /\ result = Shown("reset")
  /\ HasSession(Cur)
  /\ stProfile.k = "obj"
  /\ Len(questions) > 0
  /\ passScore = MetaPassScore
  /\ answers = EmptyAnswers
  /\ stProgress = AbsentProgress
  /\ stIndex = AbsentIndex
  /\ stFinal = AbsentFinal

\* the load handlers awaiting the reply to their questions request
LoadsAwaitingQuestions == {t \in BagToSet(tasks) : t.pc = "questions"}

\* C19 (as stated): when the questions reply of a load restores a ledger with
\* every question answered and a cached verdict (on page "main": one recorded for
\* the counts just computed), the load shows that verdict and sends no
\* final-feedback request.
C19_AsStated ==
  [][\A t \in LoadsAwaitingQuestions : \A resp \in QuestionsResponses :
       /\ LET r == main_loadQuestions_restore(Cur, resp)
              st == computeStats(r)
          IN  (/\ page = "main"
               /\ main_load_questions_on(t, resp)
               /\ st.total > 0
               /\ st.answered = st.total
               /\ main_cacheMatches(r, st)) =>
                /\ result' = ShownFinal(main_formatFinalBlock(r.final, st.pass))
                /\ PendingCount("final")' = PendingCount("final")
       /\ LET r == quiz_loadQuestions_restore(Cur, resp)
              st == computeStats(r)
          IN  (/\ page = "quiz"
               /\ quiz_loadQuestions_questions_on(t, resp)
               /\ st.total > 0
               /\ st.answered = st.total
               /\ r.final.has) =>
                /\ result' = ShownFinal(quiz_formatFinalBlock(r.final, st.pass, st))
                /\ PendingCount("final")' = PendingCount("final")]_vars

\* the replies to a questions request that give no list: the request failed, or
\* the body is empty or has no questions array
QuestionsFailures == {resp \in QuestionsResponses : resp.k # "ok"}

\* C20 (as stated): when the questions request of a load ends without a list, the
\* question list, the index, the ledger and the cached verdict are as before.
C20_AsStated ==
  [][\A t \in LoadsAwaitingQuestions : \A resp \in QuestionsFailures :
       (\/ page = "main" /\ main_load_questions_on(t, resp)
        \/ page = "quiz" /\ quiz_loadQuestions_questions_on(t, resp)) =>
         UNCHANGED <<questions, index, answers, final>>]_vars

\* the stored index gives no position of a list of n questions: the key is absent,
\* its text is no number, or the number is negative, too large or not whole
IndexUnusable(si, n) ==
  \/ si.k \in {"absent", "garbage"}
  \/ si.v < 0
  \/ si.v > (n - 1) * Unit
  \/ ~IsInteger(si.v)

\* the stored shapes a loader must answer with its default
AbsentOrCorrupt == CorruptKinds \cup {"absent"}

\* C21 (as stated): a page initialisation over an absent or corrupt profile or
\* verdict key leaves no profile and no verdict; a load whose questions request
\* succeeds with a non-empty list leaves no verdict over an absent or corrupt
\* verdict key and, over an absent or unusable index key, an integer index within
\* the list, without showing the load error.
C21_AsStated ==
  [][/\ PageReload =>
          /\ stProfile.k \in AbsentOrCorrupt => profile' = NoProfile
          /\ stFinal.k \in AbsentOrCorrupt => final' = NoFinal
     /\ \A t \in LoadsAwaitingQuestions : \A resp \in QuestionsResponses :
          (/\ resp.k = "ok"
           /\ resp.n > 0
           /\ \/ page = "main" /\ main_load_questions_on(t, resp)
              \/ page = "quiz" /\ quiz_loadQuestions_questions_on(t, resp)) =>
            /\ stFinal.k \in AbsentOrCorrupt => final' = NoFinal
            /\ IndexUnusable(stIndex, resp.n) =>
                 /\ IsInteger(index')
                 /\ index' \div Unit \in 0..(resp.n - 1)
                 /\ result' # Shown("loadError")]_vars

\* the item localStorage holds for quiz identity quiz
ItemOf(items, quiz, kind) == getItem(items, quiz_StorageKey(quiz, kind), kind)

\* the requests that name a session: grade and final-feedback
SessionRequests == {t \in BagToSet(tasks) : t.pc \in {"grade", "final"}}

\* every stored profile is the one the service issued to its quiz identity
ProfilesIssued ==
  \A quiz \in QuizIds :
    LET item == ItemOf(localStorage, quiz, "profile")
    IN  item.k = "obj" => item.v.session_id = SessionIssued(quiz)

\* the items of the other quiz identities after the step
Next_localStorage == localStorage'

C23_Reenterable ==
  /\ [](tasks = EmptyBag => ~locked)
  /\ locked ~> ~locked

\* C23 witness: a submission has ended in the grade error, no request is in
\* flight and the input surface is enabled.
C23_Witness ==
  /\ result = Shown("gradeError")
  /\ tasks = EmptyBag
  /\ ~locked
  /\ Len(questions) > 0

\* the record a readable grade reply leaves for the submission t
GradedRecord(t, resp) ==
  AnswerRecord(t.answer, resp.k = "ok" /\ resp.ok,
               IF resp.k = "ok" THEN resp.feedback ELSE "")

\* a step on which the grade request of a submission for question q ends with a
\* reply that can be read
gradedOn(q, t, resp) ==
  /\ t.qid = q
  /\ ~gradeThrows(resp)
  /\ \/ page = "main" /\ main_onGrade_grade_on(t, resp)
     \/ page = "quiz" /\ quiz_onGrade_grade_on(t, resp)

\* the ledger a load or a page initialisation would restore from storage now
RestoredLedger == loadProgress(Cur)

C25_NavigateFrame ==
  [][((onPrev \/ onNext) /\ Len(questions) > 0) =>
       /\ tasks' = tasks
       /\ stIndex' = StoredIndex("num", index')
       /\ UNCHANGED <<answers, stProgress, final, stFinal, profile, stProfile,
                      questions, passScore>>]_vars

\* C25 witness: on the quiz page, with a session, a recorded answer and a cached
\* verdict, the user has moved to the second question.
C25_Witness ==
  /\ page = "quiz"
  /\ result = Shown("noResult")
  /\ index = Unit
  /\ stIndex = StoredIndex("num", Unit)
  /\ HasSession(Cur)
  /\ stProfile.k = "obj"
  /\ answers[1].has
  /\ stProgress.k = "obj"
  /\ final.has
  /\ stFinal.k = "obj"

\* C26: a readable grade reply changes the ledger at the question of its
\* submission and nowhere else, and the record holds the answer text the
\* submission captured, whichever question is current when the reply arrives.
C26_CapturedQuestion ==
  [][\A t \in Awaiting("onGrade", "grade") : \A resp \in GradeResponses :
       gradedOn(t.qid, t, resp) =>
         /\ answers' = [answers EXCEPT ![t.qid] = GradedRecord(t, resp)]
         /\ answers'[t.qid].answer = t.answer
         /\ stProgress' = StoredProgress("obj", answers')]_vars

\* C26 witness: a grade reply has just been shown while the second question is
\* current, and the only record of the ledger is the one of the first question.
C26_Witness ==
  /\ result.k = "graded"
  /\ questions = <<1, 2>>
  /\ HasCurrentQuestion(Cur)
  /\ CurrentQuestionId(Cur) = 2
  /\ answers[1].has
  /\ ~answers[2].has

\* C27: when the tab is closed between the two storage writes of a submission
\* whose reply can be read, storage holds no verdict and the ledger as it was;
\* when the handler runs on, storage holds no verdict and the ledger with the new
\* record.  The verdict stored before is never in storage with the new record.
C27_InvalidationOrder ==
  [][\A t \in Awaiting("onGrade", "grade") : \A resp \in GradeResponses :
       /\ onGrade_tabClosed_on(t, resp) =>
            /\ stFinal' = AbsentFinal
            /\ stProgress' = stProgress
       /\ gradedOn(t.qid, t, resp) =>
            /\ stFinal' = AbsentFinal
            /\ stProgress' = StoredProgress("obj", answers')
            /\ answers'[t.qid] = GradedRecord(t, resp)]_vars

\* C27 witness: on the quiz page a verdict is stored while the grade request of a
\* submission is pending.
C27_Witness ==
  /\ page = "quiz"
  /\ stFinal.k = "obj"
  /\ final.has
  /\ \E t \in Awaiting("onGrade", "grade") : ~answers[t.qid].has

\* the positions of the question list whose question has a graded record
AnsweredPositions(list, ledger) == {i \in 1..Len(list) : ledger[list[i]].has}

CorrectPositions(list, ledger) ==
  {i \in AnsweredPositions(list, ledger) : ledger[list[i]].ok}

\* the question list in every other order
Reorderings(list) ==
  {[i \in 1..Len(list) |-> list[f[i]]] :
     f \in {g \in [1..Len(list) -> 1..Len(list)] :
              \A i, j \in 1..Len(list) : g[i] = g[j] => i = j}}

\* the ids that are not in the question list
Unlisted(list) == QIds \ {list[i] : i \in 1..Len(list)}

\* C28: computeStats gives the length of the question list as total, the number
\* of listed questions with a graded record as answered and the number of those
\* graded correct as correct; the counts are the same for every order of the list
\* and whatever the ledger holds for ids that are not listed; and 0 <= correct
\* <= answered <= total.
C28_Stats ==
  LET st == computeStats(Cur)
  IN  /\ st.total = Len(questions)
      /\ st.answered = Cardinality(AnsweredPositions(questions, answers))
      /\ st.correct = Cardinality(CorrectPositions(questions, answers))
      /\ \A list \in Reorderings(questions) :
           computeStats([Cur EXCEPT !.questions = list]) = st
      /\ \A q \in Unlisted(questions) : \A a \in {NoAnswer, AnswerRecord("a", TRUE, "f")} :
           computeStats([Cur EXCEPT !.answers[q] = a]) = st
      /\ 0 <= st.correct
      /\ st.correct <= st.answered
      /\ st.answered <= st.total

\* C28 witness: the list names question 2 twice and question 1 not at all, the
\* ledger holds a correct record for 1 and a wrong one for 2, and the counts were
\* taken for a final-feedback request: 2 answered, 0 correct of 2.
C28_Witness ==
  /\ questions = <<2, 2>>
  /\ answers[1].has /\ answers[1].ok
  /\ answers[2].has /\ ~answers[2].ok
  /\ \E t \in BagToSet(tasks) :
       /\ t.pc = "final"
       /\ t.st.total = 2 /\ t.st.answered = 2 /\ t.st.correct = 0

====
